---- MODULE Spec2Model ----
(***************************************************************************)
(* Model of the Linux DebuggerCore of edb                                  *)
(* (src/plugins/DebuggerCore/unix/linux/DebuggerCore.cpp): the thread      *)
(* table, the waited set, the event pump (wait_debug_event, handle_event,  *)
(* stop_threads), attach/open/detach/kill/pause/resume/step, together with *)
(* the part of the kernel (ptrace, waitpid, tgkill) those handlers talk to.*)
(*                                                                         *)
(* Every handler of the core is one action.  A handler is computed by      *)
(* operators over a "world" record w: the core's fields, the kernel's task *)
(* table, and what the handler has done so far (calls: the kernel requests *)
(* it issued, in order; res: what it returns).  An operator whose outcome  *)
(* depends on what the tracee does meanwhile returns the SET of worlds it  *)
(* can end in.  A property of a handler is stated over every world the     *)
(* handler can return from every reachable state.                          *)
(***************************************************************************)
EXTENDS Integers, Sequences, FiniteSets, TLC

VARIABLES
    threads_,        \* QHash<tid, thread_info>: tid -> [status, state]
    waited_threads_, \* QSet<tid>
    active_thread_,
    event_thread_,
    pid_,
    ktask,           \* kernel: tid -> [st, status, msg]
    knext,           \* kernel: next task id fork/clone hands out
    sigchld,         \* kernel: a SIGCHLD is pending for the tracer
    aborted,         \* a Q_ASSERT failed in a build that checks them
    no_debug,        \* the build defines QT_NO_DEBUG (Q_ASSERT expands to nothing)
    rc_status,       \* input of resume_code (specification SpecRC)
    rc_result,       \* its result, -1 before the call
    rp               \* a call of read_pages (specification SpecRP)

vars == << threads_, waited_threads_, active_thread_, event_thread_, pid_,
           ktask, knext, sigchld, aborted, no_debug,
           rc_status, rc_result, rp >>

---------------------------------------------------------------------------
(* Bounds *)

\* task ids the kernel can hand out: 1..MaxTid
MaxTid == 3
\* resume_code is applied to every status in 0..MaxRawStatus, with and
\* without the PTRACE_EVENT_CLONE bits above bit 16
MaxRawStatus == 5119
\* read_pages: the tracee's memory is the addresses 0..MaxAddr, a page has
\* PageSize bytes, and up to MaxCount pages are asked for
MaxAddr == 2
PageSize == 2
MaxCount == 2

Tids == 1..MaxTid

---------------------------------------------------------------------------
(* Program constants *)

SIGTRAP == 5
SIGKILL == 9
SIGSTOP == 19
PTRACE_EVENT_CLONE == 3

---------------------------------------------------------------------------
(* <sys/wait.h> status macros, as the source applies them to raw statuses *)

WTERMSIG(s) == s % 128
WSTOPSIG(s) == (s \div 256) % 256
WIFEXITED(s) == WTERMSIG(s) = 0
\* ((signed char)((s & 0x7f) + 1) >> 1) > 0
WIFSIGNALED(s) == (s % 128) \in 1..126
WIFSTOPPED(s) == (s % 256) = 127

\* raw statuses the kernel produces
StopStatus(sig) == sig * 256 + 127
CloneStatus == PTRACE_EVENT_CLONE * 65536 + StopStatus(SIGTRAP)
ExitStatus(code) == code * 256
KilledStatus(sig) == sig

---------------------------------------------------------------------------
(* resume_code, is_clone_event *)

resume_code_NoSigstopCheck(status) ==
    IF WIFSIGNALED(status) THEN WTERMSIG(status)
    ELSE IF WIFSTOPPED(status) THEN WSTOPSIG(status)
    ELSE 0

resume_code(status) ==
    IF WIFSTOPPED(status) /\ WSTOPSIG(status) = SIGSTOP THEN 0
    ELSE IF WIFSIGNALED(status) THEN WTERMSIG(status)
    ELSE IF WIFSTOPPED(status) THEN WSTOPSIG(status)
    ELSE 0

is_clone_event(status) ==
    IF WIFSTOPPED(status) /\ WSTOPSIG(status) = SIGTRAP
    THEN ((status \div 65536) % 65536) = PTRACE_EVENT_CLONE
    ELSE FALSE

---------------------------------------------------------------------------
(* The world record *)

THREAD_STOPPED == "THREAD_STOPPED"
\* the state of a thread_info that QHash::operator[] value-initialises
THREAD_DEFAULT == "THREAD_DEFAULT"

thread_info(status, state) == [status |-> status, state |-> state]

NoTask == [st |-> "none", status |-> 0, msg |-> 0]

\* no PlatformEvent has been built
PlatformEvent(pid, tid, status) == [pid |-> pid, tid |-> tid, status |-> status]

NoEvent == PlatformEvent(0, 0, 0)

\* the world at the entry of an API call
World ==
    [ th |-> threads_, wt |-> waited_threads_, act |-> active_thread_,
      ev |-> event_thread_, pid |-> pid_,
      k |-> ktask, next |-> knext, chld |-> sigchld,
      calls |-> << >>, abort |-> FALSE, nd |-> no_debug, hang |-> FALSE,
      cloned |-> {}, r |-> 0, rs |-> 0, ok |-> FALSE, att |-> FALSE,
      res |-> "void", etid |-> 0, est |-> 0, e |-> NoEvent ]

\* one kernel request: what, on which task, with which argument (signal,
\* options or returned status), and whether the task was in waited_threads_
\* when the core's wrapper was entered
Call(w, op, tid, arg) ==
    [op |-> op, tid |-> tid, arg |-> arg, inw |-> tid \in w.wt]

Log(w, op, tid, arg) == [w EXCEPT !.calls = Append(@, Call(w, op, tid, arg))]

\* insert x into a QHash, replacing the value of an existing key
HashPut(h, key, val) ==
    [t \in (DOMAIN h) \cup {key} |-> IF t = key THEN val ELSE h[t]]

HashRemove(h, key) == [t \in (DOMAIN h) \ {key} |-> h[t]]

EmptyHash == [t \in {} |-> thread_info(0, THREAD_DEFAULT)]

\* UNION of F over a set of worlds: run F after each outcome in S
Then(S, F(_)) == UNION {F(w) : w \in S}

---------------------------------------------------------------------------
(* The kernel, as far as the core's requests observe it: the tasks of ONE  *)
(* process (the tracee, or the process that can become it).                *)
(* A task is "none" (no such task), "free" (exists, not traced), "run"     *)
(* (traced, running), "pend" (traced, stopped or dead, its wait status not *)
(* yet collected) or "stopped" (in ptrace-stop, status collected).         *)
(* The status of a "pend" task is ANY_STATUS while nothing has observed    *)
(* what the task did: which event it was is fixed when the status is       *)
(* collected (or when a request on the task succeeds or fails).            *)

ANY_STATUS == -1

\* what a running traced task can do next: stop on SIGSTOP, stop on another
\* signal, report a PTRACE_EVENT_CLONE, exit, be killed by a signal
Outcomes == {"stop", "trap", "clone", "exit", "kill"}
\* before PTRACE_O_TRACECLONE is set no clone event is reported
OutcomesNoClone == Outcomes \ {"clone"}

CanHappen(w, o) == (o = "clone") => (w.next <= MaxTid)

Happen(w, t, o) ==
    LET k1 == CASE o = "stop" -> [w.k EXCEPT ![t].st = "pend", ![t].status = StopStatus(SIGSTOP)]
                [] o = "trap" -> [w.k EXCEPT ![t].st = "pend", ![t].status = StopStatus(SIGTRAP)]
                [] o = "exit" -> [w.k EXCEPT ![t].st = "pend", ![t].status = ExitStatus(0)]
                [] o = "kill" -> [w.k EXCEPT ![t].st = "pend", ![t].status = KilledStatus(SIGKILL)]
                [] o = "clone" ->
                     [w.k EXCEPT ![t].st = "pend", ![t].status = CloneStatus,
                                 ![t].msg = w.next,
                                 ![w.next] = [st |-> "pend", status |-> StopStatus(SIGSTOP),
                                              msg |-> 0]]
    IN [w EXCEPT !.k = k1, !.chld = TRUE,
                 !.next = IF o = "clone" THEN @ + 1 ELSE @]

\* a running traced task does something the tracer will be told of
Occur(w, t) ==
    [w EXCEPT !.k[t].st = "pend", !.k[t].status = ANY_STATUS, !.chld = TRUE]

Undetermined(w, t) ==
    t \in Tids /\ w.k[t].st = "pend" /\ w.k[t].status = ANY_STATUS

InPtraceStop(w, t) ==
    /\ t \in Tids
    /\ \/ w.k[t].st = "stopped"
       \/ w.k[t].st = "pend" /\ w.k[t].status # ANY_STATUS
                              /\ WIFSTOPPED(w.k[t].status)

\* waitpid hands out the pending status of t: a stopped task stays in
\* ptrace-stop, a dead one is reaped
Consume(w, t) ==
    LET s == w.k[t].status
        l == Log(w, "waitpid", t, s)
    IN [l EXCEPT !.k[t] = IF WIFSTOPPED(s)
                          THEN [@ EXCEPT !.st = "stopped", !.status = 0]
                          ELSE NoTask,
                 !.cloned = IF is_clone_event(s) THEN @ \cup {w.k[t].msg} ELSE @,
                 !.r = t, !.rs = s]

\* waitpid on a task with a pending status
Collect(w, t) ==
    IF Undetermined(w, t)
    THEN {Consume(Happen(w, t, o), t) : o \in {x \in Outcomes : CanHappen(w, x)}}
    ELSE {Consume(w, t)}

\* native::waitpid(tid, &status, __WALL): blocks until tid has a status
waitpid_block(w, tid, outs) ==
    IF w.abort \/ w.hang THEN {w}
    ELSE IF tid \notin Tids \/ w.k[tid].st \in {"none", "free"}
         THEN {[Log(w, "waitpid", tid, -1) EXCEPT !.r = -1]}
    ELSE IF Undetermined(w, tid) THEN Collect(w, tid)
    ELSE IF w.k[tid].st = "pend" THEN {Consume(w, tid)}
    ELSE IF w.k[tid].st = "run"
         THEN {Consume(Happen(w, tid, o), tid) : o \in {x \in outs : CanHappen(w, x)}}
    ELSE {[w EXCEPT !.hang = TRUE]}

\* PTRACE_CONT / PTRACE_SINGLESTEP: succeeds on a task in ptrace-stop (its
\* uncollected status is then dropped), fails on any other
K_resume(w, c) ==
    LET l == [w EXCEPT !.calls = Append(@, c)]
        go == [l EXCEPT !.k[c.tid] = [st |-> "run", status |-> 0, msg |-> 0], !.r = 0]
    IN IF Undetermined(l, c.tid)
       THEN {go, [Happen(l, c.tid, "exit") EXCEPT !.r = -1]}
       ELSE IF InPtraceStop(l, c.tid) THEN {go}
       ELSE {[l EXCEPT !.r = -1]}

---------------------------------------------------------------------------
(* The ptrace wrappers of the core *)

\* Q_ASSERT(cond): aborts the program unless QT_NO_DEBUG is defined
Q_ASSERT(w, cond) ==
    IF cond \/ w.nd \/ w.abort THEN w ELSE [w EXCEPT !.abort = TRUE]

ptrace_getsiginfo(w, tid) ==
    IF w.abort THEN w ELSE Log(w, "PTRACE_GETSIGINFO", tid, 0)

ptrace_continue_RemoveOnSuccess(w, tid, status) ==
    LET a == Q_ASSERT(Q_ASSERT(w, tid \in w.wt), tid # 0)
    IN IF a.abort THEN {a}
       ELSE {IF x.r = 0 THEN [x EXCEPT !.wt = @ \ {tid}] ELSE x :
                x \in K_resume(a, Call(w, "PTRACE_CONT", tid, status))}

ptrace_continue(w, tid, status) ==
    LET a == Q_ASSERT(Q_ASSERT(w, tid \in w.wt), tid # 0)
    IN IF a.abort THEN {a}
       ELSE K_resume([a EXCEPT !.wt = @ \ {tid}], Call(w, "PTRACE_CONT", tid, status))

ptrace_step(w, tid, status) ==
    LET a == Q_ASSERT(Q_ASSERT(w, tid \in w.wt), tid # 0)
    IN IF a.abort THEN {a}
       ELSE K_resume([a EXCEPT !.wt = @ \ {tid}], Call(w, "PTRACE_SINGLESTEP", tid, status))

\* the request fails when the task is not in ptrace-stop; a task in
\* ptrace-stop can have been killed (SIGKILL) since its stop was collected
ptrace_set_options(w, tid, options) ==
    LET a == Q_ASSERT(Q_ASSERT(w, tid \in w.wt), tid # 0)
        l == Log(a, "PTRACE_SETOPTIONS", tid, options)
    IN IF a.abort THEN {a}
       ELSE IF InPtraceStop(a, tid)
            THEN {[l EXCEPT !.r = 0], [Happen(l, tid, "kill") EXCEPT !.r = -1]}
            ELSE {[l EXCEPT !.r = -1]}

\* the message (the new tid of a clone event) is left in w.rs
ptrace_get_event_message(w, tid) ==
    LET a == Q_ASSERT(Q_ASSERT(w, tid \in w.wt), tid # 0)
    IN IF a.abort THEN a
       ELSE IF InPtraceStop(a, tid)
            THEN [Log(a, "PTRACE_GETEVENTMSG", tid, 0) EXCEPT !.r = 0, !.rs = a.k[tid].msg]
            ELSE [Log(a, "PTRACE_GETEVENTMSG", tid, 0) EXCEPT !.r = -1]

---------------------------------------------------------------------------
(* The event pump *)

Min(S) == CHOOSE x \in S : \A y \in S : x <= y

attached(w) == w.pid # 0

thread_ids(w) == DOMAIN w.th

\* threads_[tid].status = status: operator[] inserts a value-initialised
\* thread_info when tid is not a key
SetStatus(h, tid, status) ==
    IF tid \in DOMAIN h
    THEN [h EXCEPT ![tid].status = status]
    ELSE HashPut(h, tid, thread_info(status, THREAD_DEFAULT))

RECURSIVE stop_threads_from(_, _)
stop_threads_from(w, ids) ==
    IF ids = {} \/ w.abort \/ w.hang THEN {w}
    ELSE LET tid == Min(ids)
             rest == ids \ {tid}
         IN IF tid \notin w.wt
            THEN LET S == waitpid_block(Log(w, "tgkill", tid, SIGSTOP), tid, Outcomes)
                 IN Then({IF x.r > 0
                          THEN [x EXCEPT !.wt = @ \cup {tid}, !.th[tid].status = x.rs]
                          ELSE x : x \in S},
                         LAMBDA y : stop_threads_from(y, rest))
            ELSE stop_threads_from(w, rest)

stop_threads(w) == stop_threads_from(w, thread_ids(w))

\* the clone branch of handle_event, entered with tid marked waited
handle_clone(w, tid) ==
    LET g == ptrace_get_event_message(w, tid)
        new_tid == g.rs
        ins == [g EXCEPT !.th = HashPut(@, new_tid, thread_info(0, THREAD_STOPPED))]
        waitedNew ==
            IF new_tid \notin ins.wt
            THEN {IF x.r > 0 THEN [x EXCEPT !.wt = @ \cup {new_tid}]
                             ELSE [x EXCEPT !.rs = 0] :
                     x \in waitpid_block(ins, new_tid, Outcomes)}
            ELSE {[ins EXCEPT !.rs = 0]}
        afterChild ==
            IF g.abort THEN {g}
            ELSE IF g.r # -1
                 THEN Then(waitedNew,
                           LAMBDA x : ptrace_continue(x, new_tid, resume_code(x.rs)))
                 ELSE {g}
    IN {[y EXCEPT !.res = "None"] :
           y \in Then(afterChild, LAMBDA x : ptrace_continue(x, tid, 0))}

handle_stop_ReturnsNull(w, tid, status) ==
    LET g == ptrace_getsiginfo(w, tid)
        w1 == [g EXCEPT !.act = tid, !.ev = tid,
                        !.th = SetStatus(@, tid, status),
                        !.res = "None"]
    IN stop_threads(w1)

handle_stop_NoStore(w, tid, status) ==
    LET g == ptrace_getsiginfo([w EXCEPT !.e = PlatformEvent(w.pid, tid, status)], tid)
        w1 == [g EXCEPT !.act = tid, !.ev = tid, !.res = "Event"]
    IN stop_threads(w1)

\* the normal-event tail of handle_event: the event e is built from pid(),
\* tid and status before siginfo is fetched
handle_stop(w, tid, status) ==
    LET g == ptrace_getsiginfo([w EXCEPT !.e = PlatformEvent(w.pid, tid, status)], tid)
        w1 == [g EXCEPT !.act = tid, !.ev = tid,
                        !.th = SetStatus(@, tid, status),
                        !.res = "Event"]
    IN stop_threads(w1)

handle_event_CloneAsStop(w, tid, status) ==
    LET w1 == [w EXCEPT !.wt = @ \cup {tid}]
        gone == [w1 EXCEPT !.th = HashRemove(@, tid), !.wt = @ \ {tid}]
    IN IF WIFEXITED(status) /\ thread_ids(gone) # {}
       THEN {[gone EXCEPT !.res = "None"]}
       ELSE handle_stop(IF WIFEXITED(status) THEN gone ELSE w1, tid, status)

handle_event(w, tid, status) ==
    LET w1 == [w EXCEPT !.wt = @ \cup {tid}]
        gone == [w1 EXCEPT !.th = HashRemove(@, tid), !.wt = @ \ {tid}]
    IN IF WIFEXITED(status) /\ thread_ids(gone) # {}
       THEN {[gone EXCEPT !.res = "None"]}
       ELSE LET w2 == IF WIFEXITED(status) THEN gone ELSE w1
            IN IF is_clone_event(status)
               THEN handle_clone(w2, tid)
               ELSE handle_stop(w2, tid, status)

\* native::wait_for_sigchld(msecs): true when the timeout expired, false
\* when a SIGCHLD arrived (and is thereby taken)
wait_for_sigchld(w) == ~w.chld

\* the tid and status the WNOHANG waitpid returned are kept in etid, est
wait_debug_event(w) ==
    IF ~attached(w) \/ wait_for_sigchld(w) THEN {[w EXCEPT !.res = "None"]}
    ELSE LET w1 == [w EXCEPT !.chld = FALSE]
             P == {t \in thread_ids(w1) \cap Tids : w1.k[t].st = "pend"}
         IN IF P = {} THEN {[w1 EXCEPT !.res = "None"]}
            ELSE UNION {Then(Collect(w1, t),
                             LAMBDA c : handle_event([c EXCEPT !.etid = t, !.est = c.rs],
                                                     t, c.rs)) : t \in P}

---------------------------------------------------------------------------
(* resume, step *)

DEBUG_STOP == "DEBUG_STOP"
DEBUG_CONTINUE == "DEBUG_CONTINUE"
DEBUG_EXCEPTION_NOT_HANDLED == "DEBUG_EXCEPTION_NOT_HANDLED"
EVENT_STATUS == {DEBUG_STOP, DEBUG_CONTINUE, DEBUG_EXCEPTION_NOT_HANDLED}

\* (status == DEBUG_EXCEPTION_NOT_HANDLED) ? resume_code(threads_[tid].status) : 0
\* evaluated on w: operator[] inserts tid when it is not a key
ActiveCode(w, status) ==
    IF status = DEBUG_EXCEPTION_NOT_HANDLED
    THEN LET th1 == IF w.act \in DOMAIN w.th THEN w.th
                    ELSE HashPut(w.th, w.act, thread_info(0, THREAD_DEFAULT))
         IN [w EXCEPT !.th = th1, !.rs = resume_code(th1[w.act].status)]
    ELSE [w EXCEPT !.rs = 0]

RECURSIVE resume_others(_, _)
resume_others(w, ids) ==
    IF ids = {} \/ w.abort THEN {w}
    ELSE LET tid == Min(ids)
         IN Then(IF tid \in w.wt
                 THEN ptrace_continue(w, tid, resume_code(w.th[tid].status))
                 ELSE {w},
                 LAMBDA x : resume_others(x, ids \ {tid}))

resume_ActiveOnly(w, status) ==
    IF attached(w) /\ status # DEBUG_STOP
    THEN LET c == ActiveCode(w, status)
         IN ptrace_continue(c, c.act, c.rs)
    ELSE {w}

resume(w, status) ==
    IF attached(w) /\ status # DEBUG_STOP
    THEN LET c == ActiveCode(w, status)
         IN Then(ptrace_continue(c, c.act, c.rs),
                 LAMBDA a : resume_others(a, thread_ids(a)))
    ELSE {w}

step_AsResume(w, status) == resume(w, status)

step(w, status) ==
    IF attached(w) /\ status # DEBUG_STOP
    THEN LET c == ActiveCode(w, status)
         IN ptrace_step(c, c.act, c.rs)
    ELSE {w}

---------------------------------------------------------------------------
(* reset, detach, kill, pause *)

reset(w) ==
    [w EXCEPT !.th = EmptyHash, !.wt = {}, !.act = 0, !.pid = 0, !.ev = 0]

\* ptrace(PTRACE_DETACH, thread) and, when it succeeded, the reaping waitpid
\* (whose status and result the code ignores)
RECURSIVE detach_threads(_, _)
detach_threads(w, ids) ==
    IF ids = {} THEN w
    ELSE LET tid == Min(ids)
             l == Log(w, "PTRACE_DETACH", tid, 0)
             d == IF InPtraceStop(l, tid)
                  THEN Log([l EXCEPT !.k[tid].st = "free", !.k[tid].status = 0,
                                     !.k[tid].msg = 0],
                           "waitpid", tid, -1)
                  ELSE l
         IN detach_threads(d, ids \ {tid})

detach_NoReset(w) ==
    IF attached(w)
    THEN Then(stop_threads(w),
              LAMBDA x : {detach_threads(Log(x, "clear_breakpoints", 0, 0),
                                         thread_ids(x))})
    ELSE {w}

detach(w) ==
    IF attached(w)
    THEN Then(stop_threads(w),
              LAMBDA x : {reset(detach_threads(Log(x, "clear_breakpoints", 0, 0),
                                               thread_ids(x)))})
    ELSE {w}

\* detach() called by attach and open: in the caller's log the call is one
\* entry (what detach itself requests is detach's own log), and none of
\* detach's locals is visible to the caller
call_detach(w) ==
    {[d EXCEPT !.calls = Append(w.calls, Call(w, "detach", 0, 0)),
               !.cloned = w.cloned, !.r = w.r, !.rs = w.rs] : d \in detach(w)}

kill_NoReset(w) ==
    IF attached(w)
    THEN Log(Log(Log(w, "clear_breakpoints", 0, 0), "PTRACE_KILL", w.pid, 0),
             "waitpid", w.pid, -1)
    ELSE w

\* PTRACE_KILL ends the whole process of a traced pid
kill(w) ==
    IF attached(w)
    THEN LET l == Log(Log(w, "clear_breakpoints", 0, 0), "PTRACE_KILL", w.pid, 0)
             hit == l.pid \in Tids /\ l.k[l.pid].st \in {"run", "pend", "stopped"}
             k1 == IF hit THEN [t \in Tids |-> NoTask] ELSE l.k
         IN reset(Log([l EXCEPT !.k = k1], "waitpid", l.pid, -1))
    ELSE w

pause_NoGuard(w) == {Log(w, "kill", w.pid, SIGSTOP)}

\* ::kill(pid(), SIGSTOP): the kernel delivers the signal to one running
\* thread of the process, which stops on it; with no thread running it
\* stays queued, and the stop it causes later is one of the tracee's steps
pause(w) ==
    IF attached(w)
    THEN LET l == Log(w, "kill", w.pid, SIGSTOP)
             R == {t \in Tids : l.k[t].st = "run"}
         IN IF l.pid \in Tids /\ l.k[l.pid].st # "none" /\ R # {}
            THEN {Happen(l, t, "stop") : t \in R}
            ELSE {l}
    ELSE {w}

---------------------------------------------------------------------------
(* get_state, set_state, read_data, write_data, set_active_thread *)

\* the requests of get_state, each on active_thread(): the general
\* registers, the extended state, the debug registers
get_state(w) ==
    IF attached(w)
    THEN Log(Log(Log(w, "PTRACE_GETREGS", w.act, 0),
                 "PTRACE_GETREGSET", w.act, 0),
             "PTRACE_PEEKUSER", w.act, 0)
    ELSE w

set_state(w) ==
    IF attached(w)
    THEN Log(Log(w, "PTRACE_SETREGS", w.act, 0), "PTRACE_POKEUSER", w.act, 0)
    ELSE w

\* pid() is pid_
read_data(w) == Log(w, "PTRACE_PEEKTEXT", w.pid, 0)

write_data(w) == Log(w, "PTRACE_POKETEXT", w.pid, 0)

\* the assignment active_thread_ = tid is compiled out (#if 0): both
\* branches only print a message
set_active_thread(w, tid) ==
    IF tid \in thread_ids(w) THEN w ELSE w

---------------------------------------------------------------------------
(* attach, open *)

PTRACE_O_TRACECLONE == 2 ^ PTRACE_EVENT_CLONE

\* the entries of /proc/<pid>/task/: the tasks of pid's process
TaskDir(w, pid) ==
    IF pid \in Tids /\ w.k[pid].st # "none"
    THEN {t \in Tids : w.k[t].st # "none"}
    ELSE {}

\* a task that is not traced creates a thread: no event is reported
Spawn(w, t) ==
    [w EXCEPT !.k[w.next] = [st |-> "free", status |-> 0, msg |-> 0],
              !.next = @ + 1]

attach_thread_NoInsert(w, tid) ==
    LET l == Log(w, "PTRACE_ATTACH", tid, 0)
    IN IF tid \in Tids /\ l.k[tid].st = "free"
       THEN {[y EXCEPT !.ok = TRUE] :
                y \in Then(waitpid_block([l EXCEPT !.k[tid].st = "run"], tid,
                                         OutcomesNoClone),
                           LAMBDA x :
                              IF x.r > 0
                              THEN ptrace_set_options([x EXCEPT !.wt = @ \cup {tid}],
                                                      tid, PTRACE_O_TRACECLONE)
                              ELSE {x})}
       ELSE {[l EXCEPT !.ok = FALSE]}

\* result in w.ok
attach_thread(w, tid) ==
    LET l == Log(w, "PTRACE_ATTACH", tid, 0)
    IN IF tid \in Tids /\ l.k[tid].st = "free"
       THEN {[y EXCEPT !.ok = TRUE] :
                y \in Then(waitpid_block([l EXCEPT !.k[tid].st = "run"], tid,
                                         OutcomesNoClone),
                           LAMBDA x :
                              IF x.r > 0
                              THEN ptrace_set_options(
                                      [x EXCEPT !.th = HashPut(@, tid,
                                                   thread_info(x.rs, THREAD_STOPPED)),
                                                !.wt = @ \cup {tid}],
                                      tid, PTRACE_O_TRACECLONE)
                              ELSE {x})}
       ELSE {[l EXCEPT !.ok = FALSE]}

\* one pass over the directory listing; w.att is the flag "attached"
RECURSIVE attach_pass(_, _)
attach_pass(w, ids) ==
    IF ids = {} \/ w.abort \/ w.hang THEN {w}
    ELSE LET tid == Min(ids)
         IN IF tid \notin DOMAIN w.th
            THEN Then(attach_thread(w, tid),
                      LAMBDA x : attach_pass([x EXCEPT !.att = @ \/ x.ok], ids \ {tid}))
            ELSE attach_pass(w, ids \ {tid})

\* do { ... } while(attached): while a pass runs, a thread of the tracee
\* that is not yet traced may create another one
RECURSIVE attach_loop(_, _)
attach_loop(w, pid) ==
    LET dir == TaskDir(w, pid)
        during == {w} \cup
                  {Spawn(w, t) : t \in {u \in dir : w.k[u].st = "free" /\ w.next <= MaxTid}}
    IN Then(during,
            LAMBDA w0 : Then(attach_pass([Log(w0, "entryList", pid, 0) EXCEPT !.att = FALSE],
                                         dir),
                             LAMBDA x : IF x.att /\ ~x.abort /\ ~x.hang
                                        THEN attach_loop(x, pid) ELSE {x}))

Populate(w, pid) ==
    [w EXCEPT !.pid = pid, !.act = pid, !.ev = pid, !.res = "true"]

attach(w, pid) ==
    Then(call_detach(w),
         LAMBDA d : Then(attach_loop(d, pid),
                         LAMBDA x : {IF x.abort \/ x.hang THEN x
                                     ELSE IF thread_ids(x) # {} THEN Populate(x, pid)
                                     ELSE [x EXCEPT !.res = "false"]}))

\* the parent branch of open, after fork returned pid
open_parent(w, pid) ==
    Then(waitpid_block(reset(w), pid, {"trap", "stop", "kill"}),
         LAMBDA x :
            IF x.r = -1 THEN {[x EXCEPT !.res = "false"]}
            ELSE IF ~WIFSTOPPED(x.rs) \/ WSTOPSIG(x.rs) # SIGTRAP
                 THEN {[y EXCEPT !.res = "false"] : y \in detach(x)}
            ELSE LET status == x.rs
                 IN Then(ptrace_set_options([x EXCEPT !.wt = @ \cup {pid}], pid,
                                            PTRACE_O_TRACECLONE),
                         LAMBDA o :
                            IF o.abort THEN {o}
                            ELSE IF o.r = -1
                                 THEN {[y EXCEPT !.res = "false"] : y \in detach(o)}
                            ELSE {Populate([o EXCEPT !.wt = @ \cup {pid},
                                                     !.th = HashPut(@, pid,
                                                        thread_info(status, THREAD_STOPPED))],
                                           pid)}))

\* fork either fails or creates the child, which runs towards its exec;
\* the kernel of the model holds one process, so fork succeeds only when
\* no other exists, and the child is given pid 1 again
open(w) ==
    Then(call_detach(w),
         LAMBDA d :
            {[reset(Log(d, "fork", 0, -1)) EXCEPT !.res = "false"]}
            \cup
            (IF \A t \in Tids : d.k[t].st = "none"
             THEN open_parent(
                     [Log(d, "fork", 1, 0)
                         EXCEPT !.k[1] = [st |-> "run", status |-> 0, msg |-> 0],
                                !.next = 2],
                     1)
             ELSE {}))

---------------------------------------------------------------------------
(* read_pages *)

Addrs == 0..MaxAddr
Bytes == {0, 1}

\* no call of read_pages is modelled
NoRead == [done |-> FALSE]

\* the caller's buffer before the call: count * page_size() bytes the
\* tracee's memory does not hold
FreshBuf(count) == [i \in 0..(count * PageSize - 1) |-> 255]

\* QFile::read(buf, len) at offset address of /proc/<pid>/mem: n bytes of
\* the memory arrive in buf, n = -1 on an error
FileRead(r, buf, n) ==
    [i \in DOMAIN buf |-> IF i < n THEN r.mem[r.address + i] ELSE buf[i]]

\* the loop over breakpoints_: bps is the set of addresses not yet visited
RECURSIVE overlay(_, _, _, _)
overlay(r, buf, n, bps) ==
    IF bps = {} THEN buf
    ELSE LET a == Min(bps)
         IN overlay(r,
                    IF a >= r.address /\ a < r.address + n
                    THEN [buf EXCEPT ![a - r.address] = r.breakpoints_[a]]
                    ELSE buf,
                    n, bps \ {a})

read_pages_NoOverlay(r) ==
    IF r.opened
    THEN [r EXCEPT !.buf = FileRead(r, r.buf, r.n), !.done = TRUE, !.res = TRUE]
    ELSE [r EXCEPT !.done = TRUE, !.res = TRUE]

\* r: the memory, breakpoints_ (address -> original byte), the arguments,
\* whether /proc/<pid>/mem opens and what its read returns
read_pages(r) ==
    IF r.opened
    THEN [r EXCEPT !.buf = overlay(r, FileRead(r, r.buf, r.n), r.n,
                                   DOMAIN r.breakpoints_),
                   !.done = TRUE, !.res = TRUE]
    ELSE [r EXCEPT !.done = TRUE, !.res = TRUE]

---------------------------------------------------------------------------
(* Initial state: a debugger with no session, in either build; either a    *)
(* process (pid 1) runs that is not traced, or none exists yet             *)

InitCore ==
    /\ threads_ = EmptyHash
    /\ waited_threads_ = {}
    /\ active_thread_ = 0
    /\ event_thread_ = 0
    /\ pid_ = 0
    /\ aborted = FALSE

InitKernel ==
    /\ \/ /\ ktask = [t \in Tids |-> IF t = 1
                                     THEN [st |-> "free", status |-> 0, msg |-> 0]
                                     ELSE NoTask]
          /\ knext = 2
       \/ /\ ktask = [t \in Tids |-> NoTask]
          /\ knext = 1
    /\ sigchld = FALSE

Init ==
    /\ InitCore
    /\ InitKernel
    /\ no_debug \in BOOLEAN
    /\ rc_status = 0
    /\ rc_result = -1
    /\ rp = NoRead

\* an API call returns in world w
Return(w) ==
    /\ ~w.hang
    /\ threads_' = w.th
    /\ waited_threads_' = w.wt
    /\ active_thread_' = w.act
    /\ event_thread_' = w.ev
    /\ pid_' = w.pid
    /\ ktask' = w.k
    /\ knext' = w.next
    /\ sigchld' = w.chld
    /\ aborted' = w.abort
    /\ UNCHANGED << no_debug, rc_status, rc_result, rp >>

---------------------------------------------------------------------------
(* The API calls of the upper layer *)

Attach(pid) ==
    /\ ~aborted
    /\ \E w \in attach(World, pid) : Return(w)

Open ==
    /\ ~aborted
    /\ \E w \in open(World) : Return(w)

\* msecs < 0 blocks until a SIGCHLD arrives
WaitEvent(msecs) ==
    /\ ~aborted
    /\ (msecs < 0 /\ attached(World)) => sigchld
    /\ \E w \in wait_debug_event(World) : Return(w)

Resume(status) ==
    /\ ~aborted
    /\ \E w \in resume(World, status) : Return(w)

Step(status) ==
    /\ ~aborted
    /\ \E w \in step(World, status) : Return(w)

Detach ==
    /\ ~aborted
    /\ \E w \in detach(World) : Return(w)

Kill ==
    /\ ~aborted
    /\ Return(kill(World))

Pause ==
    /\ ~aborted
    /\ \E w \in pause(World) : Return(w)

GetState ==
    /\ ~aborted
    /\ Return(get_state(World))

SetState ==
    /\ ~aborted
    /\ Return(set_state(World))

ReadData ==
    /\ ~aborted
    /\ Return(read_data(World))

WriteData ==
    /\ ~aborted
    /\ Return(write_data(World))

SetActiveThread(tid) ==
    /\ ~aborted
    /\ Return(set_active_thread(World, tid))

---------------------------------------------------------------------------
(* The tracee *)

KernelStep(w) ==
    /\ ktask' = w.k
    /\ knext' = w.next
    /\ sigchld' = w.chld
    /\ UNCHANGED << threads_, waited_threads_, active_thread_, event_thread_, pid_,
                    aborted, no_debug, rc_status, rc_result, rp >>

\* a running traced task stops, reports a clone, exits or is killed
KEvent(t) ==
    /\ ~aborted
    /\ ktask[t].st = "run"
    /\ KernelStep(Occur(World, t))

\* a task that is not traced creates a thread
KSpawn(t) ==
    /\ ~aborted
    /\ ktask[t].st = "free"
    /\ knext <= MaxTid
    /\ KernelStep(Spawn(World, t))

\* the process ids the upper layer attaches to: the process of the model
AttachPids == {1}

Next ==
    \/ \E pid \in AttachPids : Attach(pid)
    \/ Open
    \/ \E msecs \in {0, -1} : WaitEvent(msecs)
    \/ \E status \in EVENT_STATUS : Resume(status)
    \/ \E status \in EVENT_STATUS : Step(status)
    \/ Detach
    \/ Kill
    \/ Pause
    \/ GetState
    \/ SetState
    \/ ReadData
    \/ WriteData
    \/ \E tid \in 0..MaxTid : SetActiveThread(tid)
    \/ \E t \in Tids : KEvent(t)
    \/ \E t \in Tids : KSpawn(t)

Spec == Init /\ [][Next]_vars

---------------------------------------------------------------------------
(* resume_code on its own: every raw status of the bounded range *)

RawStatuses ==
    (0..MaxRawStatus) \cup {PTRACE_EVENT_CLONE * 65536 + s : s \in 0..MaxRawStatus}

InitRC ==
    /\ InitCore
    /\ InitKernel
    /\ no_debug = FALSE
    /\ rc_status \in RawStatuses
    /\ rc_result = -1
    /\ rp = NoRead

ApplyResumeCode ==
    /\ rc_result = -1
    /\ rc_result' = resume_code(rc_status)
    /\ UNCHANGED << threads_, waited_threads_, active_thread_, event_thread_, pid_,
                    ktask, knext, sigchld, aborted, no_debug,
                    rc_status, rp >>

NextRC == ApplyResumeCode

SpecRC == InitRC /\ [][NextRC]_vars

---------------------------------------------------------------------------
(* read_pages on its own: every memory, breakpoint set and read result of  *)
(* the bounded range                                                       *)

\* the breakpoint sets: at most one breakpoint per address
BreakpointSets == UNION {[A -> Bytes] : A \in SUBSET Addrs}

ReadInputs ==
    {[mem |-> m, breakpoints_ |-> b, address |-> a, count |-> c, opened |-> o,
      n |-> n, buf |-> FreshBuf(c), done |-> FALSE, res |-> FALSE] :
        m \in [Addrs -> Bytes], b \in BreakpointSets, a \in Addrs,
        c \in 0..MaxCount, o \in BOOLEAN, n \in -1..(MaxAddr + 1)}

InitRP ==
    /\ InitCore
    /\ InitKernel
    /\ no_debug = FALSE
    /\ rc_status = 0
    /\ rc_result = -1
    /\ rp \in {r \in ReadInputs :
                  /\ r.n <= r.count * PageSize
                  /\ r.address + r.n <= MaxAddr + 1
                  /\ ~r.opened => r.n = -1}

ReadPages ==
    /\ ~rp.done
    /\ rp' = read_pages(rp)
    /\ UNCHANGED << threads_, waited_threads_, active_thread_, event_thread_, pid_,
                    ktask, knext, sigchld, aborted, no_debug,
                    rc_status, rc_result >>

NextRP == ReadPages

SpecRP == InitRP /\ [][NextRP]_vars

---------------------------------------------------------------------------
(* Properties.  The worlds an API call returns in, from the current state *)

\* the handler came back to its caller (it neither aborted nor blocks forever)
Returns(S) == {w \in S : ~w.hang /\ ~w.abort}

WaitReturns == IF aborted THEN {} ELSE Returns(wait_debug_event(World))

\* every world any API call can end in, an abort included
ApiOutcomes ==
    IF aborted THEN {}
    ELSE {w \in attach(World, 1) \cup open(World) \cup wait_debug_event(World)
                \cup UNION {resume(World, p) \cup step(World, p) : p \in EVENT_STATUS}
                \cup detach(World) \cup {kill(World)} \cup pause(World) : ~w.hang}

\* the positions in the handler's kernel requests that are one of ops
Requests(w, ops) == {i \in 1..Len(w.calls) : w.calls[i].op \in ops}

\* C1: whenever wait_event returns a DebugEvent, every thread id of the
\* thread table is in waited_threads at the moment of return.
C1_StopTheWorld ==
    \A w \in WaitReturns : w.res = "Event" => thread_ids(w) \subseteq w.wt

\* C2: over every sequence of API calls, every PTRACE_CONT or
\* PTRACE_SINGLESTEP the core attempts targets a thread that is in
\* waited_threads at that moment: the waited-membership assertion of
\* ptrace_continue / ptrace_step never fails.
C2_NoDoubleContinuation ==
    \A w \in ApiOutcomes :
        /\ ~w.abort
        /\ \A i \in Requests(w, {"PTRACE_CONT", "PTRACE_SINGLESTEP"}) : w.calls[i].inw

\* C3: no PTRACE_CONT, PTRACE_SINGLESTEP or PTRACE_SETOPTIONS is ever issued
\* to the kernel for a tid outside waited_threads.
C3_NeverReachesKernel ==
    \A w \in ApiOutcomes :
        \A i \in Requests(w, {"PTRACE_CONT", "PTRACE_SINGLESTEP", "PTRACE_SETOPTIONS"}) :
            w.calls[i].inw

\* the wait_event calls whose WNOHANG waitpid reported a clone event
CloneReturns == {w \in WaitReturns : w.etid # 0 /\ is_clone_event(w.est)}

\* the handler of w consumed the initial stop of n, then continued n, then
\* continued p with signal 0
ResolvedClone(w, p, n) ==
    \E i, j, m \in 1..Len(w.calls) :
        /\ i < j /\ j < m
        /\ w.calls[i].op = "waitpid" /\ w.calls[i].tid = n
        /\ w.calls[i].arg = StopStatus(SIGSTOP)
        /\ w.calls[j].op = "PTRACE_CONT" /\ w.calls[j].tid = n
        /\ w.calls[m].op = "PTRACE_CONT" /\ w.calls[m].tid = p /\ w.calls[m].arg = 0

C5_TracksEveryThread ==
    \A w \in WaitReturns : w.cloned \subseteq thread_ids(w)

\* C6: when the last tracked thread exits, wait_event returns a DebugEvent
\* and the session has reset: pid = 0, thread table and waited_threads
\* empty.
C6_TerminalExit ==
    \A w \in WaitReturns :
        (w.etid # 0 /\ WIFEXITED(w.est) /\ thread_ids(World) = {w.etid})
            => /\ w.res = "Event"
               /\ w.pid = 0
               /\ w.th = EmptyHash
               /\ w.wt = {}

\* the core's tables are in w as they were when the call was made
TablesUnchanged(w) ==
    /\ w.th = threads_
    /\ w.wt = waited_threads_
    /\ w.act = active_thread_
    /\ w.ev = event_thread_

C8_ResumeCodeRule ==
    rc_result # -1 =>
        LET s == rc_status
            sigstop == WIFSTOPPED(s) /\ WSTOPSIG(s) = SIGSTOP
        IN /\ sigstop => rc_result = 0
           /\ (~sigstop /\ WIFSIGNALED(s)) => rc_result = WTERMSIG(s)
           /\ (~sigstop /\ ~WIFSIGNALED(s) /\ WIFSTOPPED(s)) => rc_result = WSTOPSIG(s)
           /\ (~sigstop /\ ~WIFSIGNALED(s) /\ ~WIFSTOPPED(s)) => rc_result = 0
           /\ WIFEXITED(s) => rc_result = 0
           /\ s = 0 => rc_result = 0

C8_Witness ==
    /\ rc_status = CloneStatus - StopStatus(SIGTRAP) + StopStatus(SIGSTOP)
    /\ rc_result = 0

\* every tracked thread is in waited_threads, the active one among them
FullyStopped ==
    /\ ~aborted
    /\ attached(World)
    /\ thread_ids(World) # {}
    /\ waited_threads_ = thread_ids(World)
    /\ active_thread_ \in waited_threads_

\* the signal resume / step hand to the active thread
ActiveSignal(policy) ==
    IF policy = DEBUG_EXCEPTION_NOT_HANDLED /\ active_thread_ \in thread_ids(World)
    THEN resume_code(threads_[active_thread_].status)
    ELSE 0

\* C9: resume(policy), policy RunNormal or PassException, on a fully
\* stopped session issues exactly one PTRACE_CONT per thread in
\* waited_threads (and no other request): the active thread receives 0 under
\* RunNormal and the resume code of its last status under PassException,
\* every other thread the resume code of its own last status.
C9_ResumeContinuesAll ==
    FullyStopped =>
        \A policy \in {DEBUG_CONTINUE, DEBUG_EXCEPTION_NOT_HANDLED} :
            \A w \in resume(World, policy) :
                /\ ~w.abort
                /\ Len(w.calls) = Cardinality(waited_threads_)
                /\ \A t \in waited_threads_ :
                      \E i \in 1..Len(w.calls) :
                         w.calls[i] =
                            [op |-> "PTRACE_CONT", tid |-> t, inw |-> TRUE,
                             arg |-> IF t = active_thread_ THEN ActiveSignal(policy)
                                     ELSE resume_code(threads_[t].status)]

C9_Witness ==
    /\ FullyStopped
    /\ Cardinality(waited_threads_) = MaxTid
    /\ ActiveSignal(DEBUG_EXCEPTION_NOT_HANDLED) # 0
    /\ \E t \in waited_threads_ \ {active_thread_} : resume_code(threads_[t].status) # 0
    /\ \E t \in waited_threads_ \ {active_thread_} : resume_code(threads_[t].status) = 0
    /\ \E w \in resume(World, DEBUG_CONTINUE) : Len(w.calls) = MaxTid /\ w.wt = {}

\* C10: step(policy), policy not Stop, on an attached core whose active
\* thread is in waited_threads issues one PTRACE_SINGLESTEP to the active
\* thread and nothing else (no PTRACE_CONT), removes only that thread from
\* waited_threads, and leaves every other tracked thread in the table with
\* its recorded status unchanged.
C10_StepActiveOnly ==
    (~aborted /\ attached(World) /\ active_thread_ \in waited_threads_) =>
        \A policy \in {DEBUG_CONTINUE, DEBUG_EXCEPTION_NOT_HANDLED} :
            \A w \in step(World, policy) :
                /\ ~w.abort
                /\ Len(w.calls) = 1
                /\ w.calls[1].op = "PTRACE_SINGLESTEP"
                /\ w.calls[1].tid = active_thread_
                /\ w.calls[1].arg = ActiveSignal(policy)
                /\ w.wt = waited_threads_ \ {active_thread_}
                /\ \A t \in thread_ids(World) \ {active_thread_} :
                      t \in thread_ids(w) /\ w.th[t] = threads_[t]

C10_Witness ==
    /\ attached(World) /\ ~aborted
    /\ active_thread_ \in waited_threads_
    /\ Cardinality(waited_threads_) >= 2
    /\ \E w \in step(World, DEBUG_EXCEPTION_NOT_HANDLED) :
          /\ w.calls[1].arg # 0
          /\ w.k[active_thread_].st = "run"
          /\ Cardinality(w.wt) >= 1

\* the number of bytes read_pages read from the tracee's memory
BytesRead == IF rp.opened /\ rp.n > 0 THEN rp.n ELSE 0

\* C11: after read_pages(address, buf, count) read k bytes, for every
\* breakpoint whose address a satisfies address <= a < address + k,
\* buf[a - address] is that breakpoint's original byte, and every other
\* offset below k holds the byte read from the tracee's memory.
C11_ShadowByteOverlay ==
    rp.done =>
        \A off \in 0..(BytesRead - 1) :
            rp.buf[off] = IF rp.address + off \in DOMAIN rp.breakpoints_
                          THEN rp.breakpoints_[rp.address + off]
                          ELSE rp.mem[rp.address + off]

C11_Witness ==
    /\ rp.done
    /\ BytesRead >= 2
    /\ rp.address > 0
    /\ \E a \in DOMAIN rp.breakpoints_ :
          /\ a >= rp.address /\ a < rp.address + BytesRead
          /\ rp.breakpoints_[a] # rp.mem[a]
          /\ rp.buf[a - rp.address] = rp.breakpoints_[a]
    /\ \E a \in DOMAIN rp.breakpoints_ : a < rp.address
    /\ \E off \in 0..(BytesRead - 1) :
          /\ rp.address + off \notin DOMAIN rp.breakpoints_
          /\ rp.buf[off] = rp.mem[rp.address + off]

---------------------------------------------------------------------------
(* Properties of the session life cycle *)

PtraceOps ==
    {"PTRACE_ATTACH", "PTRACE_DETACH", "PTRACE_KILL", "PTRACE_CONT",
     "PTRACE_SINGLESTEP", "PTRACE_SETOPTIONS", "PTRACE_GETEVENTMSG",
     "PTRACE_GETSIGINFO", "PTRACE_GETREGS", "PTRACE_GETREGSET", "PTRACE_PEEKUSER",
     "PTRACE_SETREGS", "PTRACE_POKEUSER", "PTRACE_PEEKTEXT", "PTRACE_POKETEXT"}

\* the outcomes of every API call but attach and open
LaterCalls(w) ==
    wait_debug_event(w)
    \cup UNION {resume(w, p) \cup step(w, p) : p \in EVENT_STATUS}
    \cup pause(w) \cup detach(w)
    \cup {kill(w), get_state(w), set_state(w), read_data(w), write_data(w)}

SessionEmpty(w) ==
    /\ w.pid = 0
    /\ w.act = 0
    /\ w.ev = 0
    /\ w.th = EmptyHash
    /\ w.wt = {}

\* C12: after detach returns the core is not attached, and as long as it is
\* not attached no API call other than attach and open issues a ptrace
\* request on any thread (a request with tid 0 names no thread), nor makes
\* the core attached again.
C12_NoPtraceAfterDetach ==
    ~aborted =>
        /\ \A d \in Returns(detach(World)) : ~attached(d)
        /\ ~attached(World) =>
              \A w \in LaterCalls(World) :
                 /\ ~w.abort /\ ~w.hang
                 /\ ~attached(w)
                 /\ \A i \in Requests(w, PtraceOps) : w.calls[i].tid \notin Tids

C12_Witness ==
    /\ ~aborted /\ attached(World)
    /\ \E d \in Returns(detach(World)) :
          /\ \E t \in thread_ids(World) :
                /\ d.k[t].st = "free"
                /\ \E i \in Requests(d, {"PTRACE_DETACH"}) : d.calls[i].tid = t
          /\ \E w \in LaterCalls(d) : Requests(w, {"PTRACE_PEEKTEXT"}) # {}

\* C13: whenever attach(pid) returns false, the session is empty on return:
\* pid, active_thread and event_thread are 0, the thread table and
\* waited_threads are empty.
C13_AttachFalseEmpty ==
    ~aborted =>
        \A w \in Returns(attach(World, 1)) : w.res = "false" => SessionEmpty(w)

\* C14: after every public operation returns, waited_threads is a subset
\* of the thread ids in the thread table.
C14_WaitedSubsetOfThreads ==
    ~aborted => waited_threads_ \subseteq thread_ids(World)

\* C15: detach() or kill() on an attached session returns with the session
\* reset (pid, active_thread, event_thread 0, thread table and
\* waited_threads empty); attach on an attached session calls detach first,
\* and every thread in the table when it returns was attached by this call.
C15_TeardownResets ==
    (~aborted /\ attached(World)) =>
        /\ \A w \in Returns(detach(World)) \cup {kill(World)} : SessionEmpty(w)
        /\ \A w \in Returns(attach(World, 1)) :
              /\ w.calls[1].op = "detach"
              /\ \A t \in thread_ids(w) :
                    \E i \in Requests(w, {"PTRACE_ATTACH"}) : i > 1 /\ w.calls[i].tid = t

C15_Witness ==
    /\ ~aborted /\ attached(World)
    /\ Cardinality(thread_ids(World)) >= 2
    /\ \E w \in Returns(attach(World, 1)) :
          /\ w.res = "true"
          /\ thread_ids(World) \ thread_ids(w) # {}
    /\ \E w \in Returns(detach(World)) : \E t \in Tids : w.k[t].st = "free"
    /\ ktask[pid_].st # "none"

\* the returns of open in which fork succeeded and open reports failure: the
\* first status of the child was not a SIGTRAP stop, or PTRACE_SETOPTIONS
\* failed
InitialStopInvalid ==
    IF aborted THEN {}
    ELSE {w \in Returns(open(World)) :
             /\ w.res = "false"
             /\ \E i \in Requests(w, {"fork"}) : w.calls[i].arg = 0}

\* C16: when open fails after fork (the first waitpid result is not a stop
\* with SIGTRAP, or setting PTRACE_O_TRACECLONE fails), the spawned child is
\* no longer traced on return (released with PTRACE_DETACH if it still
\* exists), and the session is empty.
C16_InitialStopInvalid ==
    \A w \in InitialStopInvalid :
        \A i \in Requests(w, {"fork"}) :
            LET child == w.calls[i].tid
            IN /\ w.k[child].st \in {"free", "none"}
               /\ SessionEmpty(w)

\* a SIGCHLD is pending, or a traced task runs and can still raise one
CanWake(w) == w.chld \/ \E t \in Tids : w.k[t].st = "run"

\* C17: if pause() is called on an attached session in which every tracked
\* thread is alive and one of them runs, and the upper layer then calls
\* wait_event(-1), wait_event returns a DebugEvent with every tracked thread in waited_threads, or it
\* returns None in a state from which a further wait_event(-1) can still
\* return (it does not wait for a SIGCHLD that cannot come).
C17_PauseHaltsAll ==
    (/\ ~aborted /\ attached(World)
     /\ \A t \in thread_ids(World) : ktask[t].st \in {"run", "pend", "stopped"}
     /\ \E u \in thread_ids(World) : ktask[u].st = "run") =>
        \A p \in pause(World) :
            /\ CanWake(p)
            /\ \A w \in Returns(wait_debug_event(p)) :
                  \/ w.res = "Event" /\ thread_ids(w) \subseteq w.wt
                  \/ w.res = "None" /\ CanWake(w)

\* the state of scenario A: attach(P) succeeded on a single-threaded
\* process and P has not been resumed or stepped since
ScenarioA ==
    /\ ~aborted /\ attached(World)
    /\ thread_ids(World) = {pid_}
    /\ waited_threads_ = {pid_}
    /\ \A t \in Tids : ktask[t].st = IF t = pid_ THEN "stopped" ELSE "none"

\* C18: in scenario A wait_event(100ms) returns None; then pause() followed
\* by wait_event(-1) does not block forever and returns a DebugEvent with
\* tid = P and stop signal SIGSTOP, after which detach() returns.
C18_ScenarioA ==
    ScenarioA =>
        \A w1 \in wait_debug_event(World) :
            /\ ~w1.hang /\ w1.res = "None"
            /\ \A p \in pause(w1) :
                  /\ CanWake(p)
                  /\ \A w2 \in wait_debug_event(p) :
                        /\ ~w2.hang /\ w2.res = "Event"
                        /\ w2.etid = pid_
                        /\ w2.est = StopStatus(SIGSTOP)
                        /\ Returns(detach(w2)) # {}

\* C19: set_active_thread(tid) makes tid the active thread when tid is in
\* the thread table, and leaves the active thread unchanged when not.
C19_SetActiveThread ==
    ~aborted =>
        \A tid \in 0..MaxTid :
            set_active_thread(World, tid).act =
                IF tid \in thread_ids(World) THEN tid ELSE active_thread_

\* C20: a thread inserted into the thread table by a clone event has state
\* THREAD_STOPPED and as its status the wait status of the initial stop
\* (SIGSTOP) that handle_event collected for it with waitpid.
C20_CloneInsertedStatus ==
    \A w \in CloneReturns :
        \A n \in w.cloned \cap thread_ids(w) :
            /\ w.th[n].state = THREAD_STOPPED
            /\ \E i \in Requests(w, {"waitpid"}) :
                  /\ w.calls[i].tid = n
                  /\ w.th[n].status = w.calls[i].arg
                  /\ w.th[n].status = StopStatus(SIGSTOP)

---------------------------------------------------------------------------
(* Properties of event handling *)

\* the wait_event returns whose WNOHANG waitpid reported an exit
ExitReturns == {w \in WaitReturns : w.etid # 0 /\ WIFEXITED(w.est)}

\* C21: when the status wait_event consumed for tid is WIFEXITED, tid is in
\* neither the thread table nor waited_threads on return; if other threads
\* remain the call returns None and nothing else of the table or of
\* waited_threads differs; if tid was the last thread the call returns a
\* DebugEvent for tid.
C21_ThreadExit ==
    \A w \in ExitReturns :
        /\ w.etid \notin thread_ids(w)
        /\ w.etid \notin w.wt
        /\ IF thread_ids(World) \ {w.etid} # {}
           THEN /\ w.res = "None"
                /\ w.th = HashRemove(threads_, w.etid)
                /\ w.wt = waited_threads_ \ {w.etid}
           ELSE /\ w.res = "Event"
                /\ w.e.tid = w.etid

\* the wait_event returns that deliver a DebugEvent
EventReturns == {w \in WaitReturns : w.res = "Event"}

\* C22: every DebugEvent wait_event returns is built from the one (tid,
\* status) its WNOHANG waitpid returned in this call: the event carries the
\* session pid, that tid and that raw status, no other waitpid of the call
\* returned a status for this tid, the status is stored in the thread
\* table entry of tid, and active_thread = event_thread = tid on return.
C22_NormalStopDelivery ==
    \A w \in EventReturns :
        LET W == Requests(w, {"waitpid"})
        IN /\ W # {}
           /\ w.calls[Min(W)].tid = w.e.tid
           /\ w.calls[Min(W)].arg = w.e.status
           /\ \A i \in W \ {Min(W)} : w.calls[i].tid = w.e.tid => w.calls[i].arg = -1
           /\ w.e.pid = pid_ /\ w.pid = pid_
           /\ w.e.tid \in thread_ids(w)
           /\ w.th[w.e.tid].status = w.e.status
           /\ w.act = w.e.tid
           /\ w.ev = w.e.tid

C22_Witness ==
    \E w \in EventReturns :
        /\ WIFSTOPPED(w.e.status)
        /\ w.e.tid # active_thread_
        /\ threads_[w.e.tid].status # w.e.status
        /\ \E i \in Requests(w, {"waitpid"}) : w.calls[i].tid # w.e.tid /\ w.calls[i].arg > 0

\* the positions in w's log of the first and last request that is one of ops
First(w, ops) == Min(Requests(w, ops))
Last(w, ops) == CHOOSE i \in Requests(w, ops) : \A j \in Requests(w, ops) : j <= i

\* C23: detach on an attached session runs stop_threads, then clears the
\* breakpoints once, then issues PTRACE_DETACH to every thread of the thread
\* table, each of them in waited_threads at that moment, and returns with the
\* session reset.
C23_DetachOrdering ==
    (~aborted /\ attached(World)) =>
        \A d \in Returns(detach(World)) :
            LET B == Requests(d, {"clear_breakpoints"})
                S == Requests(d, {"tgkill"})
                D == Requests(d, {"PTRACE_DETACH"})
            IN /\ Cardinality(B) = 1
               /\ \A i \in S : \A b \in B : i < b
               /\ \A i \in D : \A b \in B : b < i
               /\ \A t \in thread_ids(World) : \E i \in D : d.calls[i].tid = t
               /\ \A i \in D : d.calls[i].inw
               /\ SessionEmpty(d)

\* the worlds in which the do-while loop of attach(1) ends or stops, entered
\* after attach's leading detach() returned
AttachLoopEnds ==
    IF aborted THEN {}
    ELSE Then(Returns(call_detach(World)), LAMBDA d : attach_loop(d, 1))

\* C24: the attach loop over a tracee that creates finitely many threads
\* ends (it neither blocks nor aborts); the last pass over the task
\* directory attached no thread; every thread whose PTRACE_ATTACH was
\* followed by a successful waitpid is in the thread table and in
\* waited_threads; and no PTRACE_ATTACH is issued on a tid after the waitpid
\* that entered it in the thread table.
C24_AttachFixedPoint ==
    \A x \in AttachLoopEnds :
        LET A == Requests(x, {"PTRACE_ATTACH"})
            W == {i \in Requests(x, {"waitpid"}) : x.calls[i].arg # -1}
            L == Requests(x, {"entryList"})
        IN /\ ~x.hang /\ ~x.abort
           /\ ~x.att
           /\ L # {}
           /\ \A i \in A : i > Last(x, {"entryList"}) => x.calls[i].tid \notin thread_ids(x)
           /\ \A i \in W : /\ x.calls[i].tid \in thread_ids(x)
                           /\ x.calls[i].tid \in x.wt
                           /\ \A j \in A : j > i => x.calls[j].tid # x.calls[i].tid

C24_Witness ==
    \E x \in AttachLoopEnds :
        /\ Cardinality(Requests(x, {"entryList"})) >= 3
        /\ Cardinality(thread_ids(x)) = MaxTid
        /\ knext < x.next

\* the signals handed to ptrace_continue / ptrace_step in the checks
Signals == {0, SIGTRAP}

\* the returns of ptrace_continue(t, sig) and ptrace_step(t, sig) called in
\* the current state
ContinueReturns(t, sig) ==
    IF aborted THEN {}
    ELSE Returns(ptrace_continue(World, t, sig) \cup ptrace_step(World, t, sig))

\* C25: ptrace_continue(t, sig) and ptrace_step(t, sig) return with t
\* removed from waited_threads, whether the kernel request succeeded or
\* failed, with every other member of waited_threads kept, and with the
\* thread table, active_thread, event_thread and pid unchanged.
C25_ContinueClearsWaited ==
    \A t \in Tids : \A sig \in Signals :
        \A x \in ContinueReturns(t, sig) :
            /\ x.wt = waited_threads_ \ {t}
            /\ x.th = threads_
            /\ x.act = active_thread_ /\ x.ev = event_thread_ /\ x.pid = pid_

C25_Witness ==
    \E t, u \in waited_threads_ :
        /\ \E x \in ContinueReturns(t, 0) : x.r = 0 /\ x.wt = waited_threads_ \ {t}
        /\ \E x \in ContinueReturns(u, 0) : x.r = -1 /\ x.wt = waited_threads_ \ {u}
        /\ {t, u} \subseteq thread_ids(World)

\* the handler returned without a request to the kernel and without a
\* change to the session or to the tracee
Untouched(w) ==
    /\ ~w.abort /\ ~w.hang
    /\ w.calls = << >>
    /\ TablesUnchanged(w)
    /\ w.pid = pid_
    /\ w.k = ktask /\ w.chld = sigchld

\* C26: when the core is not attached, wait_event returns None and
\* wait_event, resume, step, pause, detach and kill issue no request (ptrace,
\* waitpid, kill, tgkill) and leave the session unchanged; on an attached
\* core resume(DEBUG_STOP) and step(DEBUG_STOP) issue no request and leave
\* waited_threads and the rest of the session unchanged.
C26_NotAttachedNoOp ==
    ~aborted =>
        IF ~attached(World)
        THEN /\ \A w \in wait_debug_event(World) : w.res = "None" /\ Untouched(w)
             /\ \A w \in UNION {resume(World, p) \cup step(World, p) : p \in EVENT_STATUS} :
                   Untouched(w)
             /\ \A w \in pause(World) \cup detach(World) \cup {kill(World)} : Untouched(w)
        ELSE \A w \in resume(World, DEBUG_STOP) \cup step(World, DEBUG_STOP) : Untouched(w)

C26_Witness ==
    /\ ~aborted /\ ~attached(World)
    /\ sigchld
    /\ waited_threads_ # {}
    /\ \E t \in Tids : ktask[t].st = "pend"
    /\ \A w \in wait_debug_event(World) \cup pause(World) : Untouched(w)

\* C27: whenever the core is attached (pid != 0), active_thread and
\* event_thread are keys of the thread table.
C27_ActiveThreadTracked ==
    (~aborted /\ attached(World)) =>
        /\ active_thread_ \in thread_ids(World)
        /\ event_thread_ \in thread_ids(World)

\* a tracked thread has a wait status the core has not collected
PendingTracked(w) == {t \in thread_ids(w) \cap Tids : w.k[t].st = "pend"}

\* C28: when wait_event, woken by one SIGCHLD with the statuses of two
\* tracked threads pending, handles a clone event or a non-final exit and
\* returns None, every status of a tracked thread that is still pending can
\* still be consumed by the wait_event(-1) calls that follow: a SIGCHLD is
\* pending or a traced task runs and can raise one.
C28_NoLostEvent ==
    (~aborted /\ attached(World) /\ sigchld /\ Cardinality(PendingTracked(World)) >= 2) =>
        \A w \in WaitReturns :
            (w.res = "None" /\ w.etid # 0 /\ PendingTracked(w) # {}) => CanWake(w)

====
